---- MODULE Spec2Model ----
(***************************************************************************)
(* Round-robin credential selection with a per-key windowed usage limit    *)
(* (lib/kv: pickNextIndex, tryKey, getAvailableApiKey) over the shared     *)
(* key/value store (@vercel/kv: incr, get, expire).                        *)
(*                                                                         *)
(* Every await on the store is one step of a caller; the synchronous code  *)
(* that follows an await up to the next await (or the return/throw) is     *)
(* part of the same step.  Time is abstract: a usage key that carries a    *)
(* time-to-live may lapse at any moment (KeyLapses).                       *)
(***************************************************************************)
EXTENDS Integers, Sequences, FiniteSets, TLC

\* ---------------------------------------------------------------- sizes
\* The source fixes TOTAL_KEYS = 10 and PER_KEY_LIMIT = 4; the algorithm is
\* checked here for a smaller pool and cap (the spec's own scenario N=3, C=2).
TOTAL_KEYS == 3
PER_KEY_LIMIT == 2
WINDOW_SECONDS == 30

MaxCallers == 2      \* concurrent callers of getAvailableApiKey
MaxCalls == 2        \* calls started in one behaviour of Spec
MaxSeqCalls == 5     \* calls started in one behaviour of SpecSeq
MaxLapses == 1       \* slots whose usage key may expire in one behaviour
MaxRing == 5         \* largest ring size tried for the index function
MaxFrom == 4         \* largest counter value the index walk starts after
MaxStatusCalls == 2  \* calls of getKeyStatus started in one behaviour
MaxPosts == 2        \* chat requests received in one behaviour

Callers == 1..MaxCallers
Slots == 1..TOTAL_KEYS

\* process.env[name] of an unset (or empty) variable: falsy
NoKey == <<>>
\* the value of GOOGLE_API_KEY{i} when it is set
ApiKeyOf(i) == <<"GOOGLE_API_KEY", i>>
Null == [index |-> 0]
NoResponse == [status |-> 0]

VARIABLES
    kvPointer,   \* store key google_key_pointer (absent reads as 0)
    kvUsage,     \* store keys google_key_{i}_usage (0 = absent)
    kvTtl,       \* time-to-live attached to google_key_{i}_usage (0 = none)
    env,         \* process.env GOOGLE_API_KEY{i} (NoKey = not configured)
    pc,          \* where each caller stands in getAvailableApiKey
    attempt,     \* loop variable of getAvailableApiKey
    idx,         \* index picked in the current iteration
    tried,       \* indices tried by the current call, in order
    usage,       \* post-increment usage seen by the current tryKey
    selected,    \* result of the call (Null until it returns a key)
    calls,       \* number of calls started so far
    lapsed,      \* slots whose usage key has expired at least once
    observed,    \* history: pointer values returned by kv.incr, in order
    accepted,    \* history: successful returns of slot i since its key was absent
    nTry,        \* history: tryKey increments of slot i since its key was absent
    nAdv,        \* history: pointer advances made by the current call
    nRes,        \* history: usage increments made by the current call
    nth,         \* history: rank of the current tryKey among those of its slot's window
    capped,      \* history: all slots were at/above cap at call start and none lapsed since
    ringN,       \* index walk: ring size
    ringFrom,    \* index walk: counter value before the first increment
    ringSeen,    \* index walk: indices produced so far
    usable,      \* history: configured slots below the cap ever since the call began
    lastIdx,     \* history: index the caller's previous call returned (0 exhausted, -1 none)
    erred,       \* history: a store operation of the current call has failed
    statusPc,    \* where getKeyStatus stands
    statusI,     \* loop variable i of getKeyStatus
    statuses,    \* the statuses array of getKeyStatus
    statusCalls, \* number of getKeyStatus calls started so far
    postPc,      \* where the POST handler stands
    response,    \* the Response the handler returned
    clientKey,   \* apiKey given to createGoogleGenerativeAI (NoKey = no client)
    streamed,    \* streamText has been called for the request
    posts,       \* number of requests received so far
    lastBody,    \* history: what req.json() gave for the latest request
    startNo,     \* history: rank of the caller's latest call among all calls started
    startStore,  \* history: the store as the caller's latest call found it
    calm,        \* history: no other call and no expiry since the caller's latest call began
    lastRet      \* history: index an undisturbed call returned, the pointer unmoved since (0 none)

vars == <<kvPointer, kvUsage, kvTtl, env, pc, attempt, idx, tried, usage,
          selected, calls, lapsed, observed, accepted, nTry, nAdv, nRes, nth,
          capped, ringN, ringFrom, ringSeen, usable, lastIdx, erred,
          statusPc, statusI, statuses, statusCalls,
          postPc, response, clientKey, streamed, posts, lastBody,
          startNo, startStore, calm, lastRet>>

store == <<kvPointer, kvUsage, kvTtl>>
locals == <<attempt, idx, tried, usage, selected>>
hist == <<observed, accepted, nTry, nAdv, nRes, nth, capped>>
ring == <<ringN, ringFrom, ringSeen>>
core == <<store, env, pc, locals, calls, lapsed, hist, ring>>
notes == <<usable, lastIdx, erred>>
stat == <<statusPc, statusI, statuses, statusCalls>>
web == <<postPc, response, clientKey, streamed, posts, lastBody>>
order == <<startNo, startStore, calm, lastRet>>

\* ---------------------------------------------------------------- store
\* kv.incr: atomic, returns the value after the increment (absent counts as 0)
KvIncr(v) == v + 1

\* JavaScript's % truncates toward zero (the sign follows the dividend)
JsRem(a, n) == IF a >= 0 THEN a % n ELSE 0 - ((0 - a) % n)

\* ---------------------------------------------------------------- lib/kv
RingIndexShifted(counter, n) == JsRem(counter, n) + 1

RingIndexZeroBased(counter, n) == JsRem(counter - 1, n)

RingIndex(counter, n) == JsRem(counter - 1, n) + 1

IndexOf(counter) == RingIndex(counter, TOTAL_KEYS)

IsFirstHitBefore(u) == u = 0

\* the first-hit test passing on every use
IsFirstHitAlways(u) == u >= 1

\* the first-hit test passing on the second use as well
IsFirstHitTwice(u) == u <= 2

IsFirstHit(u) == u = 1

OverLimitLate(u) == u > PER_KEY_LIMIT + 1

OverLimitEarly(u) == u >= PER_KEY_LIMIT

OverLimit(u) == u > PER_KEY_LIMIT

MissingNever(apiKey) == FALSE

Missing(apiKey) == apiKey = NoKey

Max(a, b) == IF a >= b THEN a ELSE b

RemainingBefore(u) == Max(PER_KEY_LIMIT - (u - 1), 0)

Remaining(u) == Max(PER_KEY_LIMIT - u, 0)

SelectedKey(i, u) ==
    [apiKey |-> env[i], index |-> i, usage |-> u,
     remaining |-> Remaining(u), windowSeconds |-> WINDOW_SECONDS]

MoreAttemptsShort(a) == a + 1 < TOTAL_KEYS - 1

MoreAttemptsLong(a) == a < TOTAL_KEYS

\* attempt++ ; attempt < TOTAL_KEYS
MoreAttempts(a) == a + 1 < TOTAL_KEYS

InCall(c) == pc[c] \in {"pick", "get", "incr", "expire"}

AllCapped == \A i \in Slots : kvUsage[i] >= PER_KEY_LIMIT

\* ---------------------------------------------------------------- Init
\* The store outlives the callers.  A behaviour starts with the pointer at
\* any position of the ring and with every usage window either empty or
\* filled to the cap by earlier, completed calls (time-to-live attached,
\* every use of a configured slot accepted).
Configs == {Slots, Slots \ {TOTAL_KEYS}, {1}}

InitStore(u0) ==
    /\ kvPointer \in 0..(TOTAL_KEYS - 1)
    /\ kvUsage = [i \in Slots |-> u0]
    /\ kvTtl = [i \in Slots |-> IF u0 > 0 THEN WINDOW_SECONDS ELSE 0]
    /\ env \in {[i \in Slots |-> IF i \in S THEN ApiKeyOf(i) ELSE NoKey] : S \in Configs}
    /\ accepted = [i \in Slots |-> IF env[i] = NoKey THEN 0 ELSE u0]
    /\ nTry = [i \in Slots |-> u0]

InitCallers ==
    /\ pc = [c \in Callers |-> "idle"]
    /\ attempt = [c \in Callers |-> 0]
    /\ idx = [c \in Callers |-> 0]
    /\ tried = [c \in Callers |-> <<>>]
    /\ usage = [c \in Callers |-> 0]
    /\ selected = [c \in Callers |-> Null]
    /\ calls = 0
    /\ lapsed = {}
    /\ observed = <<>>
    /\ nAdv = [c \in Callers |-> 0]
    /\ nRes = [c \in Callers |-> 0]
    /\ nth = [c \in Callers |-> 0]
    /\ capped = [c \in Callers |-> FALSE]
    /\ usable = [c \in Callers |-> {}]
    /\ lastIdx = [c \in Callers |-> -1]
    /\ erred = [c \in Callers |-> FALSE]
    /\ statusPc = "idle"
    /\ statusI = 0
    /\ statuses = <<>>
    /\ statusCalls = 0
    /\ postPc = "idle"
    /\ response = NoResponse
    /\ clientKey = NoKey
    /\ streamed = FALSE
    /\ posts = 0
    /\ lastBody = "none"
    /\ startNo = [c \in Callers |-> 0]
    /\ startStore = [c \in Callers |-> <<>>]
    /\ calm = [c \in Callers |-> FALSE]
    /\ lastRet = 0

Init ==
    /\ \E u0 \in {0, PER_KEY_LIMIT - 1, PER_KEY_LIMIT} : InitStore(u0)
    /\ InitCallers
    /\ ringN = 1
    /\ ringFrom = 0
    /\ ringSeen = <<>>

\* ---------------------------------------------------------------- actions
\* getAvailableApiKey with its loop counter kept in the module between calls
EnterKeepsAttempt(c, limit) ==
    /\ pc[c] \in {"idle", "returned", "exhausted", "failed", "abandoned"}
    /\ calls < limit
    /\ calls' = calls + 1
    /\ pc' = [pc EXCEPT ![c] = "pick"]
    /\ attempt' = attempt
    /\ idx' = [idx EXCEPT ![c] = 0]
    /\ tried' = [tried EXCEPT ![c] = <<>>]
    /\ usage' = [usage EXCEPT ![c] = 0]
    /\ selected' = [selected EXCEPT ![c] = Null]
    /\ nAdv' = [nAdv EXCEPT ![c] = 0]
    /\ nRes' = [nRes EXCEPT ![c] = 0]
    /\ nth' = [nth EXCEPT ![c] = 0]
    /\ capped' = [capped EXCEPT ![c] = AllCapped]
    /\ UNCHANGED <<store, env, lapsed, observed, accepted, nTry, ring>>

\* getAvailableApiKey is entered: tried = [], attempt = 0
Enter(c, limit) ==
    /\ pc[c] \in {"idle", "returned", "exhausted", "failed", "abandoned"}
    /\ calls < limit
    /\ calls' = calls + 1
    /\ pc' = [pc EXCEPT ![c] = "pick"]
    /\ attempt' = [attempt EXCEPT ![c] = 0]
    /\ idx' = [idx EXCEPT ![c] = 0]
    /\ tried' = [tried EXCEPT ![c] = <<>>]
    /\ usage' = [usage EXCEPT ![c] = 0]
    /\ selected' = [selected EXCEPT ![c] = Null]
    /\ nAdv' = [nAdv EXCEPT ![c] = 0]
    /\ nRes' = [nRes EXCEPT ![c] = 0]
    /\ nth' = [nth EXCEPT ![c] = 0]
    /\ capped' = [capped EXCEPT ![c] = AllCapped]
    /\ UNCHANGED <<store, env, lapsed, observed, accepted, nTry, ring>>

\* pickNextIndex with kv.get(...) + 1 in place of kv.incr: nothing is written
pickNextIndexRead(c) ==
    /\ pc[c] = "pick"
    /\ LET counter == kvPointer + 1 IN
        /\ kvPointer' = kvPointer
        /\ observed' = Append(observed, counter)
        /\ idx' = [idx EXCEPT ![c] = IndexOf(counter)]
        /\ tried' = [tried EXCEPT ![c] = Append(@, IndexOf(counter))]
    /\ nAdv' = [nAdv EXCEPT ![c] = @ + 1]
    /\ pc' = [pc EXCEPT ![c] = "get"]
    /\ UNCHANGED <<kvUsage, kvTtl, env, attempt, usage, selected, calls,
                   lapsed, accepted, nTry, nRes, nth, capped, ring>>

\* pickNextIndex followed by a push that skips an index already in tried
pickNextIndexDedup(c) ==
    /\ pc[c] = "pick"
    /\ LET counter == KvIncr(kvPointer) IN
        /\ kvPointer' = counter
        /\ observed' = Append(observed, counter)
        /\ idx' = [idx EXCEPT ![c] = IndexOf(counter)]
        /\ tried' = [tried EXCEPT ![c] =
                        IF \E k \in 1..Len(@) : @[k] = IndexOf(counter)
                        THEN @ ELSE Append(@, IndexOf(counter))]
    /\ nAdv' = [nAdv EXCEPT ![c] = @ + 1]
    /\ pc' = [pc EXCEPT ![c] = "get"]
    /\ UNCHANGED <<kvUsage, kvTtl, env, attempt, usage, selected, calls,
                   lapsed, accepted, nTry, nRes, nth, capped, ring>>

\* pickNextIndex advancing the pointer and the usage counter as one unit
pickNextIndexAndCount(c) ==
    /\ pc[c] = "pick"
    /\ LET counter == KvIncr(kvPointer) IN
        /\ kvPointer' = counter
        /\ kvUsage' = [kvUsage EXCEPT ![IndexOf(counter)] = KvIncr(@)]
        /\ observed' = Append(observed, counter)
        /\ idx' = [idx EXCEPT ![c] = IndexOf(counter)]
        /\ tried' = [tried EXCEPT ![c] = Append(@, IndexOf(counter))]
    /\ nAdv' = [nAdv EXCEPT ![c] = @ + 1]
    /\ pc' = [pc EXCEPT ![c] = "get"]
    /\ UNCHANGED <<kvTtl, env, attempt, usage, selected, calls,
                   lapsed, accepted, nTry, nRes, nth, capped, ring>>

\* const idx = await pickNextIndex(); tried.push(idx)
pickNextIndex(c) ==
    /\ pc[c] = "pick"
    /\ LET counter == KvIncr(kvPointer) IN
        /\ kvPointer' = counter
        /\ observed' = Append(observed, counter)
        /\ idx' = [idx EXCEPT ![c] = IndexOf(counter)]
        /\ tried' = [tried EXCEPT ![c] = Append(@, IndexOf(counter))]
    /\ nAdv' = [nAdv EXCEPT ![c] = @ + 1]
    /\ pc' = [pc EXCEPT ![c] = "get"]
    /\ UNCHANGED <<kvUsage, kvTtl, env, attempt, usage, selected, calls,
                   lapsed, accepted, nTry, nRes, nth, capped, ring>>

\* const currentUsage = (await kv.get(usageKey)) || 0   (only logged)
readUsage(c) ==
    /\ pc[c] = "get"
    /\ pc' = [pc EXCEPT ![c] = "incr"]
    /\ UNCHANGED <<store, env, locals, calls, lapsed, hist, ring>>

\* The rest of tryKey after its last await, and the loop control of
\* getAvailableApiKey that follows it: return the key, go round, or throw.
Judge(c, u) ==
    LET i == idx[c] IN
    IF OverLimit(u) \/ Missing(env[i])
    THEN /\ selected' = selected
         /\ accepted' = accepted
         /\ IF MoreAttempts(attempt[c])
            THEN /\ attempt' = [attempt EXCEPT ![c] = @ + 1]
                 /\ pc' = [pc EXCEPT ![c] = "pick"]
            ELSE /\ attempt' = attempt
                 /\ pc' = [pc EXCEPT ![c] = "exhausted"]
    ELSE /\ selected' = [selected EXCEPT ![c] = SelectedKey(i, u)]
         /\ accepted' = [accepted EXCEPT ![i] = @ + 1]
         /\ attempt' = attempt
         /\ pc' = [pc EXCEPT ![c] = "returned"]

\* tryKey with the increment taken back when the slot is refused
incrUsageRollback(c) ==
    /\ pc[c] = "incr"
    /\ LET i == idx[c]
           u == KvIncr(kvUsage[i]) IN
        /\ kvUsage' = IF OverLimit(u) \/ Missing(env[i])
                      THEN kvUsage ELSE [kvUsage EXCEPT ![i] = u]
        /\ usage' = [usage EXCEPT ![c] = u]
        /\ nTry' = [nTry EXCEPT ![i] = @ + 1]
        /\ nRes' = [nRes EXCEPT ![c] = @ + 1]
        /\ nth' = [nth EXCEPT ![c] = nTry[i] + 1]
        /\ IF IsFirstHit(u)
           THEN /\ pc' = [pc EXCEPT ![c] = "expire"]
                /\ UNCHANGED <<attempt, selected, accepted>>
           ELSE Judge(c, u)
    /\ UNCHANGED <<kvPointer, kvTtl, env, idx, tried, calls, lapsed,
                   observed, nAdv, capped, ring>>

\* const usage = await kv.incr(usageKey)
incrUsage(c) ==
    /\ pc[c] = "incr"
    /\ LET i == idx[c]
           u == KvIncr(kvUsage[i]) IN
        /\ kvUsage' = [kvUsage EXCEPT ![i] = u]
        /\ usage' = [usage EXCEPT ![c] = u]
        /\ nTry' = [nTry EXCEPT ![i] = @ + 1]
        /\ nRes' = [nRes EXCEPT ![c] = @ + 1]
        /\ nth' = [nth EXCEPT ![c] = nTry[i] + 1]
        /\ IF IsFirstHit(u)
           THEN /\ pc' = [pc EXCEPT ![c] = "expire"]
                /\ UNCHANGED <<attempt, selected, accepted>>
           ELSE Judge(c, u)
    /\ UNCHANGED <<kvPointer, kvTtl, env, idx, tried, calls, lapsed,
                   observed, nAdv, capped, ring>>

\* await kv.expire(usageKey, WINDOW_SECONDS)
setExpiry(c) ==
    /\ pc[c] = "expire"
    /\ kvTtl' = [kvTtl EXCEPT ![idx[c]] = WINDOW_SECONDS]
    /\ Judge(c, usage[c])
    /\ UNCHANGED <<kvPointer, kvUsage, env, idx, tried, usage, calls,
                   lapsed, observed, nTry, nAdv, nRes, nth, capped, ring>>

\* The call ends without a result and takes its pointer advances back
UnwindRollback(c, how) ==
    /\ InCall(c)
    /\ pc' = [pc EXCEPT ![c] = how]
    /\ kvPointer' = kvPointer - nAdv[c]
    /\ attempt' = [attempt EXCEPT ![c] = 0]
    /\ idx' = [idx EXCEPT ![c] = 0]
    /\ tried' = [tried EXCEPT ![c] = <<>>]
    /\ usage' = [usage EXCEPT ![c] = 0]
    /\ nAdv' = [nAdv EXCEPT ![c] = 0]
    /\ nRes' = [nRes EXCEPT ![c] = 0]
    /\ nth' = [nth EXCEPT ![c] = 0]
    /\ capped' = [capped EXCEPT ![c] = FALSE]
    /\ UNCHANGED <<kvUsage, kvTtl, env, selected, calls, lapsed, observed,
                   accepted, nTry, ring>>

\* The call ends without a result: its frame (tried, attempt, idx, usage)
\* is gone and nothing is written to the store.
Unwind(c, how) ==
    /\ InCall(c)
    /\ pc' = [pc EXCEPT ![c] = how]
    /\ attempt' = [attempt EXCEPT ![c] = 0]
    /\ idx' = [idx EXCEPT ![c] = 0]
    /\ tried' = [tried EXCEPT ![c] = <<>>]
    /\ usage' = [usage EXCEPT ![c] = 0]
    /\ nAdv' = [nAdv EXCEPT ![c] = 0]
    /\ nRes' = [nRes EXCEPT ![c] = 0]
    /\ nth' = [nth EXCEPT ![c] = 0]
    /\ capped' = [capped EXCEPT ![c] = FALSE]
    /\ UNCHANGED <<store, env, selected, calls, lapsed, observed, accepted,
                   nTry, ring>>

\* a store failure whose error is caught inside the loop, which goes on
StoreFailsSwallowed(c) ==
    /\ InCall(c)
    /\ IF MoreAttempts(attempt[c])
       THEN /\ attempt' = [attempt EXCEPT ![c] = @ + 1]
            /\ pc' = [pc EXCEPT ![c] = "pick"]
       ELSE /\ attempt' = attempt
            /\ pc' = [pc EXCEPT ![c] = "exhausted"]
    /\ UNCHANGED <<store, env, idx, tried, usage, selected, calls, lapsed,
                   hist, ring>>

\* A store operation fails (network, timeout): the await throws and the
\* error leaves getAvailableApiKey; the operation had no effect.
StoreFails(c) == Unwind(c, "failed")

\* The caller gives the call up while it waits for the store.
Abandon(c) == Unwind(c, "abandoned")

\* The time-to-live of usage key i elapses: the store drops the key.
KeyLapses(i) ==
    /\ kvUsage[i] > 0
    /\ kvTtl[i] > 0
    /\ Cardinality(lapsed) < MaxLapses \/ i \in lapsed
    /\ kvUsage' = [kvUsage EXCEPT ![i] = 0]
    /\ kvTtl' = [kvTtl EXCEPT ![i] = 0]
    /\ lapsed' = lapsed \cup {i}
    /\ accepted' = [accepted EXCEPT ![i] = 0]
    /\ nTry' = [nTry EXCEPT ![i] = 0]
    /\ capped' = [c \in Callers |-> capped[c] /\ ~InCall(c)]
    /\ UNCHANGED <<kvPointer, env, pc, locals, calls, observed, nAdv, nRes,
                   nth, ring>>

StartCall(c) == Enter(c, MaxCalls)

\* One caller, one call after the other.
StartNextCall == Enter(1, MaxSeqCalls)

\* The index walk: the next counter value is mapped to its index.
RingStep ==
    /\ Len(ringSeen) < 2 * ringN
    /\ ringSeen' = Append(ringSeen, RingIndex(ringFrom + Len(ringSeen) + 1, ringN))
    /\ UNCHANGED <<store, env, pc, locals, calls, lapsed, hist, ringN, ringFrom>>

\* ---------------------------------------------------------------- history
\* The slots a running call could have used all along: configured, and
\* below the cap from the moment the call began up to now.
UsableNow == {i \in Slots : env[i] # NoKey /\ kvUsage[i] < PER_KEY_LIMIT}

TrackUsable ==
    usable' = [c \in Callers |->
                 IF ~InCall(c) /\ pc'[c] = "pick" THEN UsableNow
                 ELSE IF pc'[c] \in {"pick", "get", "incr", "expire", "exhausted"}
                      THEN {i \in usable[c] : kvUsage'[i] < PER_KEY_LIMIT}
                      ELSE {}]

\* What the caller's previous call came to, noted when the next one begins.
TrackLast ==
    lastIdx' = [c \in Callers |->
                  IF ~InCall(c) /\ pc'[c] = "pick"
                  THEN (IF pc[c] = "returned" THEN selected[c].index
                        ELSE IF pc[c] = "exhausted" THEN 0 ELSE -1)
                  ELSE lastIdx[c]]

Next ==
    \/ \E c \in Callers : StartCall(c) /\ TrackUsable /\ UNCHANGED <<lastIdx, erred, stat, web, order>>
    \/ \E c \in Callers : pickNextIndex(c) /\ TrackUsable /\ UNCHANGED <<lastIdx, erred, stat, web, order>>
    \/ \E c \in Callers : readUsage(c) /\ TrackUsable /\ UNCHANGED <<lastIdx, erred, stat, web, order>>
    \/ \E c \in Callers : incrUsage(c) /\ TrackUsable /\ UNCHANGED <<lastIdx, erred, stat, web, order>>
    \/ \E c \in Callers : setExpiry(c) /\ TrackUsable /\ UNCHANGED <<lastIdx, erred, stat, web, order>>
    \/ \E c \in Callers : StoreFails(c) /\ TrackUsable /\ UNCHANGED <<lastIdx, erred, stat, web, order>>
    \/ \E c \in Callers : Abandon(c) /\ TrackUsable /\ UNCHANGED <<lastIdx, erred, stat, web, order>>
    \/ \E i \in Slots : KeyLapses(i) /\ TrackUsable /\ UNCHANGED <<lastIdx, erred, stat, web, order>>

Spec == Init /\ [][Next]_vars

\* Sequential calls of a single caller, from an empty store.
InitSeq ==
    /\ InitStore(0)
    /\ InitCallers
    /\ ringN = 1
    /\ ringFrom = 0
    /\ ringSeen = <<>>

NextSeq ==
    \/ StartNextCall /\ TrackLast /\ UNCHANGED <<usable, erred, stat, web, order>>
    \/ pickNextIndex(1) /\ UNCHANGED <<notes, stat, web, order>>
    \/ readUsage(1) /\ UNCHANGED <<notes, stat, web, order>>
    \/ incrUsage(1) /\ UNCHANGED <<notes, stat, web, order>>
    \/ setExpiry(1) /\ UNCHANGED <<notes, stat, web, order>>
    \/ StoreFails(1) /\ UNCHANGED <<notes, stat, web, order>>
    \/ \E i \in Slots : KeyLapses(i) /\ UNCHANGED <<notes, stat, web, order>>

SpecSeq == InitSeq /\ [][NextSeq]_vars

\* The index function alone, over ring sizes 1..MaxRing.
InitRing ==
    /\ kvPointer = 0
    /\ kvUsage = [i \in Slots |-> 0]
    /\ kvTtl = [i \in Slots |-> 0]
    /\ env = [i \in Slots |-> ApiKeyOf(i)]
    /\ accepted = [i \in Slots |-> 0]
    /\ nTry = [i \in Slots |-> 0]
    /\ InitCallers
    /\ ringN \in 1..MaxRing
    /\ ringFrom \in 0..MaxFrom
    /\ ringSeen = <<>>

NextRing == RingStep /\ UNCHANGED <<notes, stat, web, order>>

SpecRing == InitRing /\ [][NextRing]_vars

\* ------------------------------------------------- calls that all return
\* What each call found when it began, and whether it has been left alone.
TrackOrder ==
    LET entering == {c \in Callers : ~InCall(c) /\ pc'[c] = "pick"}
        returning == {c \in Callers : pc[c] # "returned" /\ pc'[c] = "returned"} IN
    /\ startNo' = [c \in Callers |->
                     IF c \in entering THEN calls' ELSE startNo[c]]
    /\ calm' = [c \in Callers |->
                  IF c \in entering
                  THEN \A d \in Callers \ {c} : ~InCall(d)
                  ELSE /\ calm[c]
                       /\ entering = {}
                       /\ kvUsage' = kvUsage \/ pc' # pc]
    /\ startStore' = [c \in Callers |->
                        IF ~calm'[c] THEN <<>>
                        ELSE IF c \in entering
                        THEN [ptr |-> kvPointer, usage |-> kvUsage, ttl |-> kvTtl,
                              prev |-> lastRet]
                        ELSE startStore[c]]
    /\ lastRet' = IF returning # {}
                  THEN LET c == CHOOSE r \in returning : TRUE IN
                       IF calm'[c] THEN selected'[c].index ELSE 0
                  ELSE IF kvPointer' # kvPointer THEN 0 ELSE lastRet

\* one store operation of caller c's call completes
CallStep(c) ==
    \/ pickNextIndex(c)
    \/ readUsage(c)
    \/ incrUsage(c)
    \/ setExpiry(c)

\* Two callers whose store operations all return.
NextPair ==
    \/ \E c \in Callers : StartCall(c) /\ TrackOrder /\ TrackLast
                             /\ UNCHANGED <<usable, erred, stat, web>>
    \/ \E c \in Callers : pickNextIndex(c) /\ TrackOrder /\ UNCHANGED <<notes, stat, web>>
    \/ \E c \in Callers : readUsage(c) /\ TrackOrder /\ UNCHANGED <<notes, stat, web>>
    \/ \E c \in Callers : incrUsage(c) /\ TrackOrder /\ UNCHANGED <<notes, stat, web>>
    \/ \E c \in Callers : setExpiry(c) /\ TrackOrder /\ UNCHANGED <<notes, stat, web>>
    \/ \E i \in Slots : KeyLapses(i) /\ TrackOrder /\ UNCHANGED <<notes, stat, web>>

\* A pending store operation is answered in the end: each call keeps
\* taking its next step.
SpecPair ==
    /\ Init
    /\ [][NextPair]_vars
    /\ \A c \in Callers : WF_vars(CallStep(c) /\ TrackOrder /\ UNCHANGED <<notes, stat, web>>)

\* ---------------------------------------------------------- getKeyStatus
\* kv.get: the stored value, or null (here <<>>) when the key is absent
KvGet(v) == IF v = 0 THEN <<>> ELSE <<v>>

\* (await kv.get(...)) || 0
OrZero(r) == IF r = <<>> \/ r[1] = 0 THEN 0 ELSE r[1]

\* a status entry whose remaining is not floored at 0
StatusEntryUnfloored(i, u) ==
    [index |-> i, usage |-> u, limit |-> PER_KEY_LIMIT,
     remaining |-> PER_KEY_LIMIT - u]

\* { index: i, usage, limit: PER_KEY_LIMIT, remaining: Math.max(...) }
StatusEntry(i, u) ==
    [index |-> i, usage |-> u, limit |-> PER_KEY_LIMIT,
     remaining |-> Max(PER_KEY_LIMIT - u, 0)]

\* getKeyStatus is entered: statuses = [], i = 1
StartStatus ==
    /\ statusPc \in {"idle", "done", "failed"}
    /\ statusCalls < MaxStatusCalls
    /\ statusCalls' = statusCalls + 1
    /\ statusPc' = "read"
    /\ statusI' = 1
    /\ statuses' = <<>>
    /\ UNCHANGED <<core, notes, web, order>>

\* one iteration: await kv.get, push the entry, i++; return after the last
statusRead ==
    /\ statusPc = "read"
    /\ LET u == OrZero(KvGet(kvUsage[statusI])) IN
          statuses' = Append(statuses, StatusEntry(statusI, u))
    /\ IF statusI + 1 <= TOTAL_KEYS
       THEN statusI' = statusI + 1 /\ statusPc' = "read"
       ELSE statusI' = statusI /\ statusPc' = "done"
    /\ UNCHANGED <<core, notes, statusCalls, web, order>>

\* kv.get rejects: the error leaves getKeyStatus, nothing is returned
StatusFails ==
    /\ statusPc = "read"
    /\ statusPc' = "failed"
    /\ statusI' = 0
    /\ statuses' = <<>>
    /\ UNCHANGED <<core, notes, statusCalls, web, order>>

NoteFailure(c) == erred' = [erred EXCEPT ![c] = TRUE]
NoteEntry(c) == erred' = [erred EXCEPT ![c] = FALSE]

\* getKeyStatus read while one caller uses getAvailableApiKey
NextStatus ==
    \/ StartStatus
    \/ statusRead
    \/ StatusFails
    \/ StartCall(1) /\ NoteEntry(1) /\ UNCHANGED <<usable, lastIdx, stat, web, order>>
    \/ pickNextIndex(1) /\ UNCHANGED <<notes, stat, web, order>>
    \/ readUsage(1) /\ UNCHANGED <<notes, stat, web, order>>
    \/ incrUsage(1) /\ UNCHANGED <<notes, stat, web, order>>
    \/ setExpiry(1) /\ UNCHANGED <<notes, stat, web, order>>
    \/ StoreFails(1) /\ NoteFailure(1) /\ UNCHANGED <<usable, lastIdx, stat, web, order>>
    \/ \E i \in Slots : KeyLapses(i) /\ UNCHANGED <<notes, stat, web, order>>

SpecStatus == Init /\ [][NextStatus]_vars

\* ----------------------------------------------------------- POST /api/chat
\* error.message of the Error getAvailableApiKey throws
ExhaustedMessage(t) ==
    [text |-> "All keys exhausted in current window (tried in order)",
     keys |-> TOTAL_KEYS, window |-> WINDOW_SECONDS, tried |-> t]

\* error.message of what a rejected store operation or req.json() throws
OtherMessage(what) == [text |-> what]

BadRequest == [status |-> 400, error |-> "Invalid payload: messages must be an array"]
ServerError(msg) ==
    [status |-> 500, error |-> "Failed to process chat request", details |-> msg]
Streaming == [status |-> 200]

Bodies == {"unparsable", "messagesNotArray", "messagesArray"}

\* the handler without the Array.isArray test: any parsed body goes on to
\* getAvailableApiKey
PostReceiveUnchecked(body) ==
    /\ postPc \in {"idle", "done"}
    /\ posts < MaxPosts
    /\ posts' = posts + 1
    /\ lastBody' = body
    /\ clientKey' = NoKey
    /\ streamed' = FALSE
    /\ IF body = "unparsable"
       THEN /\ response' = ServerError(OtherMessage("req.json"))
            /\ postPc' = "done"
            /\ UNCHANGED core
       ELSE /\ response' = NoResponse
            /\ postPc' = "key"
            /\ Enter(1, MaxPosts)
    /\ UNCHANGED <<notes, stat, order>>

\* await req.json(), the Array.isArray test, and the call of
\* getAvailableApiKey up to its first await
PostReceive(body) ==
    /\ postPc \in {"idle", "done"}
    /\ posts < MaxPosts
    /\ posts' = posts + 1
    /\ lastBody' = body
    /\ clientKey' = NoKey
    /\ streamed' = FALSE
    /\ CASE body = "unparsable" ->
               /\ response' = ServerError(OtherMessage("req.json"))
               /\ postPc' = "done"
               /\ UNCHANGED core
         [] body = "messagesNotArray" ->
               /\ response' = BadRequest
               /\ postPc' = "done"
               /\ UNCHANGED core
         [] body = "messagesArray" ->
               /\ response' = NoResponse
               /\ postPc' = "key"
               /\ Enter(1, MaxPosts)
    /\ UNCHANGED <<notes, stat, order>>

\* the handler with a credential of its own to fall back on
PostRespondFallback ==
    /\ postPc = "key"
    /\ pc[1] \in {"returned", "exhausted", "failed"}
    /\ clientKey' = IF pc[1] = "returned" THEN selected[1].apiKey ELSE ApiKeyOf(1)
    /\ streamed' = TRUE
    /\ response' = Streaming
    /\ postPc' = "done"
    /\ UNCHANGED <<core, notes, stat, posts, lastBody, order>>

\* the await of getAvailableApiKey settles: client, streamText and the
\* stream response, or the catch block's 500
PostRespond ==
    /\ postPc = "key"
    /\ pc[1] \in {"returned", "exhausted", "failed"}
    /\ IF pc[1] = "returned"
       THEN /\ clientKey' = selected[1].apiKey
            /\ streamed' = TRUE
            /\ response' = Streaming
       ELSE /\ clientKey' = NoKey
            /\ streamed' = FALSE
            /\ response' = ServerError(IF pc[1] = "exhausted"
                                       THEN ExhaustedMessage(tried[1])
                                       ELSE OtherMessage("kv"))
    /\ postPc' = "done"
    /\ UNCHANGED <<core, notes, stat, posts, lastBody, order>>

NextPost ==
    \/ \E body \in Bodies : PostReceive(body)
    \/ pickNextIndex(1) /\ UNCHANGED <<notes, stat, web, order>>
    \/ readUsage(1) /\ UNCHANGED <<notes, stat, web, order>>
    \/ incrUsage(1) /\ UNCHANGED <<notes, stat, web, order>>
    \/ setExpiry(1) /\ UNCHANGED <<notes, stat, web, order>>
    \/ StoreFails(1) /\ UNCHANGED <<notes, stat, web, order>>
    \/ \E i \in Slots : KeyLapses(i) /\ UNCHANGED <<notes, stat, web, order>>
    \/ PostRespond

SpecPost == Init /\ [][NextPost]_vars

\* ================================================================ claims
Last(seq) == seq[Len(seq)]

Stepped(c, from) == pc[c] = from /\ pc'[c] \notin {from, "failed", "abandoned"}

\* the latest tryKey of caller c has run to its return statement
TryDone(c) ==
    \/ pc[c] \in {"returned", "exhausted"}
    \/ pc[c] = "pick" /\ attempt[c] > 0

\* C1: in every interleaving of the callers' store operations, the number
\* of calls that return slot i within one window of usage counter i never
\* exceeds PER_KEY_LIMIT.
C1_CapIsHardCeiling == \A i \in Slots : accepted[i] <= PER_KEY_LIMIT

\* two callers race for the last allowance of a slot: one gets it, the other is refused
C1_Witness ==
    \E i \in Slots : \E c, d \in Callers :
        /\ c # d
        /\ accepted[i] = PER_KEY_LIMIT
        /\ pc[c] = "returned" /\ selected[c].index = i /\ nth[c] = PER_KEY_LIMIT
        /\ idx[d] = i /\ nth[d] = PER_KEY_LIMIT + 1 /\ TryDone(d) /\ pc[d] # "returned"

\* C2: pickNextIndex increments the pointer by one in one step and returns
\* ((counter - 1) mod N) + 1 of the post-increment value, an index of 1..N.
C2_AdvanceContract ==
    [][\A c \in Callers : Stepped(c, "pick") =>
          /\ kvPointer' = kvPointer + 1
          /\ kvPointer' >= 1
          /\ idx'[c] = ((kvPointer' - 1) % TOTAL_KEYS) + 1
          /\ idx'[c] \in Slots]_vars

\* a pick that wrapped round the ring
C2_Witness ==
    \E c \in Callers : pc[c] = "get" /\ kvPointer > TOTAL_KEYS /\ idx[c] = 1

\* C3: of the tryKey calls a configured slot receives one after the other
\* from an absent counter, the PER_KEY_LIMIT-th returns a key with
\* usage = PER_KEY_LIMIT and remaining = 0, and the next one returns null.
C3_CapBoundary ==
    \A c \in Callers :
        (TryDone(c) /\ idx[c] \in Slots /\ env[idx[c]] # NoKey) =>
            /\ nth[c] = PER_KEY_LIMIT =>
                  /\ pc[c] = "returned"
                  /\ selected[c].index = idx[c]
                  /\ selected[c].usage = PER_KEY_LIMIT
                  /\ selected[c].remaining = 0
            /\ nth[c] = PER_KEY_LIMIT + 1 => pc[c] # "returned"

\* the call after the last allowed one has been refused
C3_Witness ==
    /\ TryDone(1) /\ idx[1] \in Slots /\ env[idx[1]] # NoKey
    /\ nth[1] = PER_KEY_LIMIT + 1
    /\ accepted[idx[1]] = PER_KEY_LIMIT
    /\ lapsed = {}

\* C4: a call that starts with every usage counter at or above the cap,
\* none of which lapses during the call, and that finishes, finishes with
\* the exhaustion error after exactly TOTAL_KEYS tried indices.
C4_AllCappedExhausts ==
    \A c \in Callers :
        capped[c] =>
            /\ pc[c] # "returned"
            /\ selected[c] = Null
            /\ pc[c] = "exhausted" => Len(tried[c]) = TOTAL_KEYS
            /\ Len(tried[c]) <= TOTAL_KEYS

C4_Witness ==
    \E c \in Callers : capped[c] /\ pc[c] = "exhausted" /\ Len(tried[c]) = TOTAL_KEYS

\* C5: the tryKey that finds usage counter i absent (its time-to-live has
\* elapsed) gets usage 1, takes the first-hit branch, and its expire sets
\* a time-to-live of WINDOW_SECONDS on the counter.
C5_FreshWindow ==
    [][\A c \in Callers :
          /\ (Stepped(c, "incr") /\ kvUsage[idx[c]] = 0) =>
                /\ usage'[c] = 1
                /\ kvUsage'[idx[c]] = 1
                /\ pc'[c] = "expire"
          /\ Stepped(c, "expire") =>
                /\ usage[c] = 1
                /\ kvTtl'[idx[c]] = WINDOW_SECONDS]_vars

\* a counter that lapsed has been used again and carries a new time-to-live
C5_Witness ==
    \E i \in lapsed : kvUsage[i] = 1 /\ kvTtl[i] = WINDOW_SECONDS /\ nTry[i] = 1

Distinct(seq) == \A j, k \in 1..Len(seq) : j # k => seq[j] # seq[k]

\* C6: no two pickNextIndex calls, of one getAvailableApiKey call or of
\* concurrent ones, get the same post-increment pointer value, and the
\* pointer never decreases.
C6_PointerValuesUnique ==
    [][Distinct(observed') /\ kvPointer' >= kvPointer]_vars

\* both callers hold an index picked in overlapping calls
C6_Witness ==
    /\ \A c \in Callers : pc[c] \in {"get", "incr"} /\ nAdv[c] >= 1
    /\ Len(observed) >= 3

\* C7: for every ring size N >= 1 the counters 1..2N visit every index of
\* 1..N exactly twice, and any N consecutive counters map to N distinct
\* indices of 1..N.
C7_RingVisits ==
    /\ \A k \in 1..Len(ringSeen) : ringSeen[k] \in 1..ringN
    /\ \A j, k \in 1..Len(ringSeen) :
          (j < k /\ k - j < ringN) => ringSeen[j] # ringSeen[k]
    /\ (ringFrom = 0 /\ Len(ringSeen) = 2 * ringN) =>
          \A i \in 1..ringN :
              Cardinality({k \in 1..Len(ringSeen) : ringSeen[k] = i}) = 2

C7_Witness == ringN >= 3 /\ ringFrom = 0 /\ Len(ringSeen) = 2 * ringN

\* C8: a returned SelectedKey holds the credential configured for its
\* index, the post-increment counter value this call got (between 1 and
\* PER_KEY_LIMIT), remaining = PER_KEY_LIMIT - usage >= 0, and
\* windowSeconds = WINDOW_SECONDS.
C8_ResultShape ==
    \A c \in Callers :
        pc[c] = "returned" =>
            LET r == selected[c] IN
            /\ r.index = Last(tried[c])
            /\ r.index \in Slots
            /\ r.apiKey = env[r.index]
            /\ r.apiKey = ApiKeyOf(r.index)
            /\ r.usage = nth[c]
            /\ 1 <= r.usage /\ r.usage <= PER_KEY_LIMIT
            /\ r.remaining = PER_KEY_LIMIT - r.usage
            /\ r.remaining >= 0
            /\ r.windowSeconds = 30

\* a result that used up the slot's last allowance, and one that did not
C8_Witness ==
    \E c, d \in Callers :
        /\ pc[c] = "returned" /\ selected[c].remaining = 0
        /\ pc[d] = "returned" /\ selected[d].remaining > 0

\* C9: a slot without a configured credential is never returned, whatever
\* its usage counter holds, yet the pointer maps to it and trying it uses
\* up one of the TOTAL_KEYS iterations.
C9_MissingSlot ==
    \A c \in Callers :
        /\ pc[c] = "returned" => env[selected[c].index] # NoKey
        /\ \A k \in 1..Len(tried[c]) : tried[c][k] \in Slots
        /\ (pc[c] = "pick" /\ attempt[c] > 0) => Len(tried[c]) = attempt[c]
        /\ pc[c] = "exhausted" => Len(tried[c]) = TOTAL_KEYS
        /\ Len(tried[c]) <= TOTAL_KEYS

\* a call ran out of iterations, one of them spent on an unconfigured slot
\* whose counter was within the cap
C9_Witness ==
    \E c \in Callers :
        /\ pc[c] = "exhausted"
        /\ \E k \in 1..Len(tried[c]) :
              /\ env[tried[c][k]] = NoKey
              /\ kvUsage[tried[c][k]] \in 1..PER_KEY_LIMIT

\* the bookkeeping of one getAvailableApiKey call, by its position
LoopShape ==
    \A c \in Callers :
        /\ nAdv[c] <= TOTAL_KEYS
        /\ Len(tried[c]) = nAdv[c]
        /\ nRes[c] <= nAdv[c] /\ nAdv[c] <= nRes[c] + 1
        /\ InCall(c) =>
              /\ selected[c] = Null
              /\ nAdv[c] = attempt[c] + (IF pc[c] = "pick" THEN 0 ELSE 1)
              /\ nRes[c] = attempt[c] + (IF pc[c] = "expire" THEN 1 ELSE 0)
        /\ pc[c] \in {"get", "incr", "expire"} => idx[c] = Last(tried[c])
        /\ pc[c] = "returned" =>
              /\ nAdv[c] = attempt[c] + 1
              /\ nRes[c] = nAdv[c]
              /\ selected[c].index = Last(tried[c])
        /\ pc[c] = "exhausted" => nAdv[c] = TOTAL_KEYS /\ nRes[c] = TOTAL_KEYS

\* C10: a call makes at most TOTAL_KEYS iterations, each advancing the
\* pointer once and then incrementing the usage counter of exactly the
\* index picked; it returns at its first successful tryKey, so a call that
\* succeeds on its k-th attempt has advanced the pointer k times.
C10_LoopShape ==
    [][/\ LoopShape'
       /\ \A c \in Callers :
             /\ Stepped(c, "pick") =>
                   /\ kvPointer' = kvPointer + 1
                   /\ nAdv[c] = attempt[c] /\ nRes[c] = attempt[c]
                   /\ kvUsage' = kvUsage
             /\ Stepped(c, "incr") =>
                   /\ kvPointer' = kvPointer
                   /\ \A i \in Slots :
                         kvUsage'[i] = kvUsage[i] + (IF i = Last(tried[c]) THEN 1 ELSE 0)]_vars

\* a call that succeeded on its last attempt, not its first
C10_Witness ==
    \E c \in Callers : pc[c] = "returned" /\ attempt[c] = TOTAL_KEYS - 1 /\ nAdv[c] = TOTAL_KEYS

\* C11: when all TOTAL_KEYS iterations fail, the error lists every index
\* the call picked, in the order picked, TOTAL_KEYS of them, duplicates
\* kept (another caller's advances can make the same index come up twice).
C11_TraceComplete ==
    [][\A c \in Callers :
          /\ Stepped(c, "pick") =>
                /\ idx'[c] = ((kvPointer' - 1) % TOTAL_KEYS) + 1
                /\ tried'[c] = Append(tried[c], idx'[c])
          /\ (pc[c] # "exhausted" /\ pc'[c] = "exhausted") =>
                /\ tried'[c] = tried[c]
                /\ Len(tried'[c]) = TOTAL_KEYS
          /\ (InCall(c) /\ InCall(c)' /\ ~Stepped(c, "pick")) => tried'[c] = tried[c]]_vars

\* an exhaustion error whose list names an index twice
C11_Witness ==
    \E c \in Callers :
        /\ pc[c] = "exhausted"
        /\ Len(tried[c]) = TOTAL_KEYS
        /\ ~Distinct(tried[c])

\* C20: every tryKey that gets to its increment raises the usage counter
\* of its slot by exactly 1 and leaves the other counters alone, whether the
\* slot is then selected, refused as over the cap or refused as missing;
\* and a counter that is present before and after a step has not gone down.
C20_IncrementExactlyOne ==
    [][/\ \A c \in Callers :
             Stepped(c, "incr") =>
                /\ kvUsage'[idx[c]] = kvUsage[idx[c]] + 1
                /\ \A j \in Slots \ {idx[c]} : kvUsage'[j] = kvUsage[j]
                /\ usage'[c] = kvUsage'[idx[c]]
       /\ \A i \in Slots :
             (kvUsage[i] > 0 /\ kvUsage'[i] > 0) => kvUsage'[i] >= kvUsage[i]]_vars

\* one call has returned a key while a configured slot and an unconfigured
\* slot both stand above the cap: all three outcomes have been counted
C20_Witness ==
    \E c \in Callers : \E i, j \in Slots :
        /\ pc[c] = "returned"
        /\ selected[c].usage = kvUsage[selected[c].index]
        /\ env[i] # NoKey /\ kvUsage[i] > PER_KEY_LIMIT
        /\ env[j] = NoKey /\ kvUsage[j] > PER_KEY_LIMIT

\* C16 as stated: a configured slot whose counter reads a value below or
\* equal to PER_KEY_LIMIT is selected by the next tryKey on it.
C16_Original ==
    [][\A c \in Callers :
          (/\ Stepped(c, "incr")
           /\ env[idx[c]] # NoKey
           /\ kvUsage[idx[c]] <= PER_KEY_LIMIT)
          => pc'[c] \in {"expire", "returned"}]_vars

\* C16: a configured slot whose counter reads strictly below PER_KEY_LIMIT
\* is selected by the next tryKey on it; one whose counter reads
\* PER_KEY_LIMIT or more is refused by every tryKey, and its counter comes
\* back below the limit only by the lapse of its time-to-live; no usage
\* value is ever negative.
C16_BelowCapPermits ==
    [][/\ \A c \in Callers :
             /\ (Stepped(c, "incr") /\ env[idx[c]] # NoKey) =>
                   /\ kvUsage[idx[c]] < PER_KEY_LIMIT =>
                         \/ pc'[c] = "expire"
                         \/ /\ pc'[c] = "returned"
                            /\ selected'[c].index = idx[c]
                   /\ kvUsage[idx[c]] >= PER_KEY_LIMIT =>
                         /\ pc'[c] \in {"pick", "exhausted"}
                         /\ selected'[c] = Null
             /\ (Stepped(c, "expire") /\ env[idx[c]] # NoKey) =>
                   /\ pc'[c] = "returned"
                   /\ selected'[c].index = idx[c]
             /\ usage'[c] >= 0
       /\ \A i \in Slots :
             /\ kvUsage'[i] >= 0
             /\ (kvUsage[i] >= PER_KEY_LIMIT /\ kvUsage'[i] < PER_KEY_LIMIT) =>
                   /\ kvTtl[i] > 0
                   /\ kvUsage'[i] = 0
                   /\ kvTtl'[i] = 0]_vars

\* on one slot in one window: one call took use number PER_KEY_LIMIT and
\* another, finding the counter at PER_KEY_LIMIT, was refused
C16_Witness ==
    \E c, d \in Callers :
        /\ pc[c] \in {"pick", "exhausted"}
        /\ idx[c] \in Slots
        /\ env[idx[c]] # NoKey
        /\ usage[c] = PER_KEY_LIMIT + 1
        /\ kvUsage[idx[c]] = PER_KEY_LIMIT + 1
        /\ pc[d] = "returned"
        /\ selected[d].index = idx[c]
        /\ selected[d].usage = PER_KEY_LIMIT

\* C17: getAvailableApiKey ends in the exhaustion error only when no slot
\* is usable: a call during all of which some configured slot had its
\* usage below PER_KEY_LIMIT does not end exhausted, other callers
\* advancing the pointer meanwhile or not.
C17_ExhaustedOnlyWhenNoneUsable ==
    \A c \in Callers : pc[c] = "exhausted" => usable[c] = {}

\* every slot but the last has its credential
LastSlotMissing == \A i \in Slots : (env[i] # NoKey) <=> (i < TOTAL_KEYS)

\* C14: credentials 1..TOTAL_KEYS-1 set, the last one missing, no usage
\* counter at the start: from every start value of the pointer, the first
\* two calls made one after the other both return a key (neither ends
\* exhausted), and the two keys have different indices.
C14_TwoCallsTwoKeys ==
    LastSlotMissing =>
        /\ (calls = 1 /\ pc[1] \in {"returned", "exhausted"}) => pc[1] = "returned"
        /\ (calls = 2 /\ lastIdx[1] # -1) => lastIdx[1] \in Slots
        /\ (calls = 2 /\ lastIdx[1] # -1 /\ pc[1] \in {"returned", "exhausted"}) =>
              /\ pc[1] = "returned"
              /\ selected[1].index \in Slots \ {lastIdx[1]}

\* the second call has returned after stepping over the missing slot
C14_Witness ==
    /\ LastSlotMissing
    /\ calls = 2
    /\ pc[1] = "returned"
    /\ lastIdx[1] \in Slots
    /\ tried[1] = <<TOTAL_KEYS, selected[1].index>>

\* C15: with calls made one after the other, the tryKey that is attempt
\* number PER_KEY_LIMIT + 1 on slot 1 within one window (the third, at a
\* limit of 2) is refused, and the loop of that call goes on: to the pick
\* of the next index of the ring if picks remain, which may return a key,
\* and to the exhaustion error if none remains.
C15_ThirdAttemptMovesOn ==
    [][/\ (/\ Stepped(1, "incr")
           /\ idx[1] = 1
           /\ nTry[1] = PER_KEY_LIMIT) =>
             /\ usage'[1] = PER_KEY_LIMIT + 1
             /\ selected'[1] = Null
             /\ IF attempt[1] + 1 < TOTAL_KEYS
                THEN pc'[1] = "pick" /\ attempt'[1] = attempt[1] + 1
                ELSE pc'[1] = "exhausted"
       /\ (Stepped(1, "pick") /\ attempt[1] > 0) =>
             idx'[1] = (idx[1] % TOTAL_KEYS) + 1]_vars

\* a call was refused on slot 1 at PER_KEY_LIMIT + 1 and then returned the
\* key of the next slot
C15_Witness ==
    /\ pc[1] = "returned"
    /\ env[1] # NoKey
    /\ kvUsage[1] = PER_KEY_LIMIT + 1
    /\ nTry[1] = PER_KEY_LIMIT + 1
    /\ Len(tried[1]) >= 2
    /\ tried[1][Len(tried[1]) - 1] = 1
    /\ selected[1].index = 2

\* C18: exhaustion is not permanent. Once no call is in progress and every
\* window has run out (no usage key has a time-to-live left to run), every
\* slot with a credential is usable again, so the next call returns a key.
C18_LapsedMeansUsable ==
    (~InCall(1) /\ \A i \in Slots : kvTtl[i] = 0) =>
        \A i \in Slots : env[i] # NoKey => kvUsage[i] < PER_KEY_LIMIT

\* what getKeyStatus returns: one entry per slot, in index order
StatusShape ==
    /\ Len(statuses) = TOTAL_KEYS
    /\ \A k \in 1..Len(statuses) :
          /\ statuses[k].index = k
          /\ statuses[k].limit = PER_KEY_LIMIT
          /\ statuses[k].usage >= 0
          /\ statuses[k].remaining >= 0
          /\ statuses[k].remaining =
                IF statuses[k].usage < PER_KEY_LIMIT
                THEN PER_KEY_LIMIT - statuses[k].usage ELSE 0

\* C12: getKeyStatus changes neither the pointer nor a usage counter nor a
\* time-to-live; each entry it pushes carries the counter as stored at that
\* moment, an absent counter as 0; and it returns exactly TOTAL_KEYS
\* entries, entry k for index k, with limit = PER_KEY_LIMIT, usage >= 0 and
\* remaining = max(PER_KEY_LIMIT - usage, 0).
C12_StatusReadOnly ==
    [][/\ stat' # stat => UNCHANGED <<store, env, pc, locals>>
       /\ (stat' # stat /\ statusPc = "read" /\ statusPc' # "failed") =>
             /\ Len(statuses') = Len(statuses) + 1
             /\ Last(statuses').index = statusI
             /\ Last(statuses').usage = kvUsage[statusI]
       /\ statusPc' = "done" => StatusShape']_vars

\* a returned status list with one counter absent and one above the limit
C12_Witness ==
    /\ statusPc = "done"
    /\ Len(statuses) = TOTAL_KEYS
    /\ \E k \in 1..Len(statuses) :
          statuses[k].usage = 0 /\ statuses[k].remaining = PER_KEY_LIMIT
    /\ \E k \in 1..Len(statuses) :
          statuses[k].usage > PER_KEY_LIMIT /\ statuses[k].remaining = 0

\* C13: a store operation that fails during getAvailableApiKey or
\* getKeyStatus ends the call with that error at once: the call returns no
\* key (no status list), the failed operation has left the store as it
\* was, and the call takes no further step (no retry, no other slot).
C13_StoreFailureEndsCall ==
    [][/\ \A c \in Callers :
             /\ erred'[c] => (pc'[c] = "failed" /\ selected'[c] = Null)
             /\ (erred'[c] /\ ~erred[c]) => (InCall(c) /\ store' = store)
             /\ (erred[c] /\ erred'[c]) =>
                   UNCHANGED <<pc[c], attempt[c], idx[c], tried[c], usage[c]>>
       /\ statusPc' = "failed" => statuses' = <<>>
       /\ (statusPc = "read" /\ statusPc' = "failed") => store' = store
       /\ statusPc = "failed" =>
             (statusPc' = "failed" \/ statusCalls' = statusCalls + 1)]_vars

\* getAvailableApiKey has failed after it advanced the pointer, and
\* getKeyStatus has failed too
C13_Witness ==
    /\ erred[1]
    /\ pc[1] = "failed"
    /\ Len(observed) > 0
    /\ statusPc = "failed"

\* C19: when getAvailableApiKey throws the exhaustion error, the POST
\* handler answers with status 500 and the error's message in details, and
\* for that request it neither creates a provider client nor calls
\* streamText with any credential; a client is only ever created with the
\* key a call returned.
C19_ExhaustedGives500 ==
    [][/\ (postPc = "key" /\ pc[1] = "exhausted" /\ postPc' = "done") =>
             /\ response' = ServerError(ExhaustedMessage(tried[1]))
             /\ response'.status = 500
             /\ clientKey' = NoKey
             /\ ~streamed'
       /\ postPc' = "key" => (clientKey' = NoKey /\ ~streamed')
       /\ (clientKey' # NoKey \/ streamed') =>
             /\ pc'[1] = "returned"
             /\ clientKey' = selected'[1].apiKey
             /\ clientKey' = env'[selected'[1].index]]_vars

\* a request answered 500 with the exhaustion message, no client created
C19_Witness ==
    /\ postPc = "done"
    /\ pc[1] = "exhausted"
    /\ response.status = 500
    /\ response.details = ExhaustedMessage(tried[1])
    /\ Len(tried[1]) = TOTAL_KEYS
    /\ clientKey = NoKey
    /\ ~streamed

\* C21 as stated: within one window a usage counter stands above
\* PER_KEY_LIMIT by at most the number of racing callers less one, and
\* later calls do not push it further.
C21_Original ==
    \A i \in Slots : kvUsage[i] <= PER_KEY_LIMIT + (MaxCallers - 1)

\* C21: within one window the usage counter of a slot counts every tryKey
\* made on it, the refused ones included, so it stands above PER_KEY_LIMIT
\* by the number of refusals, whatever the number of racing callers, and
\* each later call raises it again; the number of times the slot was
\* returned in the window stays at or below PER_KEY_LIMIT.
C21_CounterCountsEveryTry ==
    \A i \in Slots :
        /\ kvUsage[i] = nTry[i]
        /\ accepted[i] <= PER_KEY_LIMIT
        /\ accepted[i] <= kvUsage[i]

\* a counter further above the limit than the racing callers less one,
\* with the slot returned PER_KEY_LIMIT times in the window
C21_Witness ==
    \E i \in Slots :
        /\ env[i] # NoKey
        /\ kvUsage[i] > PER_KEY_LIMIT + (MaxCallers - 1)
        /\ accepted[i] = PER_KEY_LIMIT
        /\ lapsed = {}

\* C22: tryKey sets the time-to-live of a usage counter, to WINDOW_SECONDS,
\* exactly when the value its increment returned is 1, and in a step after
\* the increment; a tryKey that got a value above 1 leaves the time-to-live
\* as it is, over the limit or not; nothing else changes a time-to-live
\* but the expiry of the key itself.
C22_TtlOnlyOnFirstHit ==
    [][/\ \A c \in Callers :
             /\ Stepped(c, "incr") =>
                   /\ kvTtl' = kvTtl
                   /\ (pc'[c] = "expire") <=> (usage'[c] = 1)
             /\ Stepped(c, "expire") =>
                   /\ usage[c] = 1
                   /\ kvUsage' = kvUsage
                   /\ kvTtl' = [kvTtl EXCEPT ![idx[c]] = WINDOW_SECONDS]
       /\ \A i \in Slots :
             kvTtl'[i] # kvTtl[i] =>
                \/ kvTtl'[i] = 0 /\ kvUsage'[i] = 0 /\ kvUsage[i] > 0
                \/ \E c \in Callers :
                      /\ Stepped(c, "expire")
                      /\ idx[c] = i
                      /\ usage[c] = 1]_vars

\* a counter that lapsed, was started again with a time-to-live, and has
\* since been pushed over the limit with that time-to-live still in place
C22_Witness ==
    \E c \in Callers :
        /\ TryDone(c)
        /\ idx[c] \in lapsed
        /\ usage[c] = PER_KEY_LIMIT + 1
        /\ nTry[idx[c]] = PER_KEY_LIMIT + 1
        /\ kvTtl[idx[c]] = WINDOW_SECONDS

\* C23: in every reachable state, those after a failed store operation or
\* an abandoned call included, a usage counter that is present either has
\* a time-to-live or has a caller standing before the expire that will
\* give it one.
C23_PresentCounterExpires ==
    \A i \in Slots :
        kvUsage[i] > 0 =>
            \/ kvTtl[i] > 0
            \/ \E c \in Callers : pc[c] = "expire" /\ idx[c] = i

\* C24: a call that fails or is abandoned leaves the store as it stands:
\* the pointer is still the last value handed out and every counter still
\* counts every tryKey of its window, those of the ended call included.
\* No step lowers the pointer, and a usage counter goes down only when the
\* store drops the key at the end of its time-to-live, never by a step of
\* a call.
C24_NoRollback ==
    [][/\ \A c \in Callers :
             (InCall(c) /\ pc'[c] \in {"failed", "abandoned"}) =>
                /\ store' = store
                /\ Len(observed) > 0 => kvPointer' = Last(observed)
                /\ \A i \in Slots : kvUsage'[i] = nTry[i]
       /\ kvPointer' >= kvPointer
       /\ \A i \in Slots :
             kvUsage'[i] < kvUsage[i] =>
                /\ kvTtl[i] > 0
                /\ kvUsage'[i] = 0
                /\ pc' = pc]_vars

\* the only call made was abandoned after its increment of a fresh
\* counter: pointer and counter have kept what it did
C24_Witness ==
    \E c \in Callers : \E i \in Slots :
        /\ calls = 1
        /\ pc[c] = "abandoned"
        /\ Len(observed) = 1
        /\ kvPointer = observed[1]
        /\ i = ((kvPointer - 1) % TOTAL_KEYS) + 1
        /\ kvUsage[i] = 1
        /\ kvTtl[i] = 0

\* C25: the pointer and the usage counters are written by separate store
\* operations. pickNextIndex advances the pointer by one and touches no
\* usage counter, the increment of tryKey touches no pointer, and a call
\* whose store operation fails between the two ends one pointer advance
\* ahead of its usage increments, with the store as the pick left it.
C25_SeparateOperations ==
    [][\A c \in Callers :
          /\ Stepped(c, "pick") =>
                /\ kvPointer' = kvPointer + 1
                /\ kvUsage' = kvUsage
                /\ kvTtl' = kvTtl
          /\ Stepped(c, "incr") => kvPointer' = kvPointer
          /\ (pc[c] \in {"get", "incr"} /\ pc'[c] = "failed") =>
                /\ store' = store
                /\ nAdv[c] = nRes[c] + 1]_vars

\* the first call failed after its pick on an empty store: the pointer
\* has moved, no usage counter exists
C25_Witness ==
    /\ calls = 1
    /\ pc[1] = "failed"
    /\ Len(observed) = 1
    /\ kvPointer = observed[1]
    /\ \A i \in Slots : kvUsage[i] = 0 /\ kvTtl[i] = 0

\* the call of caller c began with every slot configured and below the limit
BeganFresh(c) ==
    /\ calm[c]
    /\ startStore[c] # <<>>
    /\ \A i \in Slots : env[i] # NoKey /\ startStore[c].usage[i] < PER_KEY_LIMIT

LaterCallEarlierPosition ==
    \E c, d \in Callers :
        /\ startNo[c] = 1 /\ startNo[d] = 2
        /\ pc[c] = "get" /\ pc[d] = "get"
        /\ Len(observed) = 2
        /\ idx[d] = ((observed[1] - 1) % TOTAL_KEYS) + 1
        /\ idx[c] = ((observed[2] - 1) % TOTAL_KEYS) + 1
        /\ idx[c] = (idx[d] % TOTAL_KEYS) + 1

\* getAvailableApiKey as a function of the store it starts from: the store
\* it leaves and what it returns when nothing else touches the store.
RECURSIVE Resolve(_, _, _, _)
Resolve(ptr, use, ttl, a) ==
    LET counter == ptr + 1
        i == ((counter - 1) % TOTAL_KEYS) + 1
        u == use[i] + 1
        use2 == [use EXCEPT ![i] = u]
        ttl2 == IF u = 1 THEN [ttl EXCEPT ![i] = WINDOW_SECONDS] ELSE ttl
    IN  IF u <= PER_KEY_LIMIT /\ env[i] # NoKey
        THEN [ptr |-> counter, usage |-> use2, ttl |-> ttl2,
              result |-> [apiKey |-> env[i], index |-> i, usage |-> u,
                          remaining |-> PER_KEY_LIMIT - u,
                          windowSeconds |-> WINDOW_SECONDS]]
        ELSE IF a + 1 < TOTAL_KEYS
             THEN Resolve(counter, use2, ttl2, a + 1)
             ELSE [ptr |-> counter, usage |-> use2, ttl |-> ttl2, result |-> Null]

\* C27: a call of getAvailableApiKey depends on nothing but the store and
\* the configuration it starts from: run with nothing else touching the
\* store, it returns what the function of the start store says and leaves
\* the store that function says, whatever calls went before (so two calls
\* from the same store and configuration end alike).
C27_FunctionOfStore ==
    \A c \in Callers :
        (pc[c] \in {"returned", "exhausted"} /\ calm[c] /\ startStore[c] # <<>>) =>
            LET r == Resolve(startStore[c].ptr, startStore[c].usage,
                             startStore[c].ttl, 0) IN
            /\ selected[c] = r.result
            /\ (pc[c] = "exhausted") <=> (r.result = Null)
            /\ kvPointer = r.ptr
            /\ kvUsage = r.usage
            /\ kvTtl = r.ttl

\* a caller's second call, run undisturbed after a first call of its own
\* that ended exhausted, has returned a key
C27_Witness ==
    \E c \in Callers :
        /\ pc[c] = "returned"
        /\ calm[c]
        /\ startStore[c] # <<>>
        /\ startNo[c] = 2
        /\ lastIdx[c] = 0
        /\ Len(tried[c]) >= 2

\* C28: in each window of usage counter i exactly one tryKey, the first,
\* gets the value 1 from its increment, however the callers' increments
\* interleave; so at most one caller at a time stands before an expire of
\* slot i, every expire finds the counter without a time-to-live, and a
\* counter that lapses has had its one first use.
C28_OneFirstHitPerWindow ==
    [][/\ \A c \in Callers :
             /\ Stepped(c, "incr") =>
                   (usage'[c] = 1) <=> (nTry[idx[c]] = 0)
             /\ Stepped(c, "expire") =>
                   /\ usage[c] = 1
                   /\ kvTtl[idx[c]] = 0
             /\ \A d \in Callers \ {c} :
                   ~(pc'[c] = "expire" /\ pc'[d] = "expire" /\ idx'[c] = idx'[d])
       /\ \A i \in Slots :
             kvUsage'[i] < kvUsage[i] => nTry[i] >= 1]_vars

\* two callers have incremented one fresh counter: the first stands
\* before its expire, the second got 2 and has returned
C28_Witness ==
    \E c, d \in Callers :
        /\ pc[c] = "expire"
        /\ usage[c] = 1
        /\ kvTtl[idx[c]] = 0
        /\ pc[d] = "returned"
        /\ selected[d].index = idx[c]
        /\ selected[d].usage = 2
        /\ kvUsage[idx[c]] = 2

\* C29: a call that no other caller's pointer advance interleaves with and
\* that ends with the exhaustion error has tried TOTAL_KEYS indices, all
\* different, every slot once, in ring order; and each refusal was of a
\* slot whose counter, just incremented, stood over the limit or whose
\* credential was not set.
C29_ExhaustedCoversRing ==
    [][/\ pc'[1] = "exhausted" =>
             /\ Len(tried'[1]) = TOTAL_KEYS
             /\ Distinct(tried'[1])
             /\ {tried'[1][k] : k \in 1..Len(tried'[1])} = Slots
             /\ \A k \in 1..(Len(tried'[1]) - 1) :
                   tried'[1][k + 1] = (tried'[1][k] % TOTAL_KEYS) + 1
       /\ ((Stepped(1, "incr") \/ Stepped(1, "expire"))
           /\ pc'[1] \in {"pick", "exhausted"}) =>
             \/ env[idx[1]] = NoKey
             \/ kvUsage'[idx[1]] > PER_KEY_LIMIT]_vars

\* an exhausted call that was refused once for a counter over the limit
\* and once for a credential not set
C29_Witness ==
    /\ pc[1] = "exhausted"
    /\ Len(tried[1]) = TOTAL_KEYS
    /\ \E i \in Slots : env[i] # NoKey /\ kvUsage[i] > PER_KEY_LIMIT
    /\ \E j \in Slots : env[j] = NoKey /\ kvUsage[j] > 0

\* C30: when every store operation returns, every call of
\* getAvailableApiKey comes to an end, with a key or with the exhaustion
\* error, whatever the other callers do meanwhile; and no call makes more
\* than TOTAL_KEYS pointer increments or more than TOTAL_KEYS usage
\* increments.
C30_CallTerminates ==
    /\ [](\A c \in Callers :
            /\ nAdv[c] <= TOTAL_KEYS
            /\ nRes[c] <= TOTAL_KEYS
            /\ nRes[c] <= nAdv[c])
    /\ \A c \in Callers : InCall(c) ~> (pc[c] \in {"returned", "exhausted"})

\* a call that ran alongside another one has ended exhausted after
\* TOTAL_KEYS increments of each kind
C30_Witness ==
    \E c \in Callers :
        /\ pc[c] = "exhausted"
        /\ ~calm[c]
        /\ nAdv[c] = TOTAL_KEYS
        /\ nRes[c] = TOTAL_KEYS


\* C31: a chat request whose messages field is not an array is answered
\* with status 400 before any credential is selected: receiving it starts
\* no getAvailableApiKey call, creates no client, and leaves the rotation
\* pointer, the usage counters and their expiries as they were; the pointer
\* and the counters only ever move while a request with an array of
\* messages awaits its credential, and 400 is given to no other request.
C31_NonArrayRejectedBeforeSelection ==
    [][/\ (posts' = posts + 1 /\ lastBody' = "messagesNotArray") =>
             /\ response' = BadRequest
             /\ response'.status = 400
             /\ postPc' = "done"
             /\ kvPointer' = kvPointer
             /\ kvUsage' = kvUsage
             /\ kvTtl' = kvTtl
             /\ pc' = pc
             /\ calls' = calls
             /\ clientKey' = NoKey
             /\ ~streamed'
       /\ (kvPointer' # kvPointer \/ \E i \in Slots : kvUsage'[i] > kvUsage[i]) =>
             /\ postPc = "key"
             /\ lastBody = "messagesArray"
       /\ response' = BadRequest => lastBody' = "messagesNotArray"]_vars

\* the second request, rejected with 400 after the first one was given a
\* credential: the pointer and the counter stand where the first left them
C31_Witness ==
    /\ posts = 2
    /\ postPc = "done"
    /\ lastBody = "messagesNotArray"
    /\ response = BadRequest
    /\ pc[1] = "returned"
    /\ calls = 1
    /\ Len(observed) = 1
    /\ kvPointer = observed[1]
    /\ kvUsage[selected[1].index] = selected[1].usage
    /\ clientKey = NoKey

====
